---- MODULE Spec2Model ----
(***************************************************************************)
(* Nurse-to-Patient Ratio Dashboard (src/dashboard.py).                    *)
(*                                                                         *)
(* The script is re-run top to bottom for a viewer each time a widget      *)
(* changes.  One run is: load_data (cached), the sidebar (date range,      *)
(* risk slider), the filter, the empty-data check, the metric cards and    *)
(* the charts.  st.stop() ends the run; an exception nobody catches aborts *)
(* it.                                                                     *)
(*                                                                         *)
(* Quantities are fixed-point, in thousandths: 4.0 is 4000, 4.167 is 4167. *)
(* Floating-point representation error is not modelled.                    *)
(***************************************************************************)
EXTENDS Integers, Sequences, FiniteSets

VARIABLES
    file,           \* 'Final_Dashboard_Data_v3.csv' on disk: [state, rows]
    cache,          \* st.cache_data entries of load_data: <<>> or <<the parsed frame>>
    pc,             \* per viewer: the block of the script its run is at
    df,             \* per viewer: the frame load_data returned to this run
    start_date,     \* per viewer: the "Start" date_input
    end_date,       \* per viewer: the "End" date_input
    min_ratio,      \* per viewer: the risk slider
    df_filtered,    \* per viewer: the filtered frame
    avg_patients,   \* per viewer: metric card 1
    avg_nurses,     \* per viewer: metric card 2
    avg_ratio,      \* per viewer: metric card 3
    risk_days,      \* per viewer: metric card 4
    exc,            \* per viewer: the exception load_data raised in this run
    out             \* per viewer: the elements this run has put on the page

vars == <<file, cache, pc, df, start_date, end_date, min_ratio, df_filtered,
          avg_patients, avg_nurses, avg_ratio, risk_days, exc, out>>

\* A metric card's value: not computed yet, a number (in thousandths), or NaN.
Unset == [set |-> FALSE]
Num(x) == [set |-> TRUE, nan |-> FALSE, val |-> x]
NaN == [set |-> TRUE, nan |-> TRUE]

\* A date input or the slider before the sidebar has run.
NoDate == [month |-> 0, day |-> 0]
NoRatio == 0

\* The largest number of rows of a source file.
MaxRows == 3

\* ------------------------------------------------------------------ inputs

Viewers == {"v1", "v2"}

\* A D.O.A cell "dd/mm/2024 hh:00" is the text <<first, second, hh>>.
Row(a, b, h, p, n, r, o) ==
    [DOA_text |-> <<a, b, h>>, Patient_Count |-> p, Estimated_Nurse_Count |-> n,
     Patients_Per_Nurse |-> r, Occupancy_Rate |-> o]

\* The rows a source file is made of.
Rows ==
    { Row(1, 1, 0, 50000, 10000, 5000, 90000),    \* 01/01  50 patients, 10 nurses, 1:5.0
      Row(2, 1, 0, 40000, 20000, 2000, 60000),    \* 02/01  40 patients, 20 nurses, 1:2.0
      Row(2, 1, 13, 40000, 10000, 4000, 70000),   \* 02/01 13:00  1:4.0 exactly
      Row(1, 2, 0, 50000, 12000, 4167, 80000),    \* 01/02  50/12 = 4.167
      Row(1, 1, 0, 42000, 10000, 4200, 85000),    \* 01/01  1:4.2
      Row(1, 2, 0, 8000, 10000, 800, 20000) }     \* 01/02  1:0.8

RECURSIVE SeqsUpTo(_, _)
SeqsUpTo(S, n) ==
    IF n = 0 THEN {<<>>}
    ELSE LET shorter == SeqsUpTo(S, n - 1)
         IN  shorter \cup {Append(q, x) : q \in {t \in shorter : Len(t) = n - 1}, x \in S}

\* The source files with data: at least one row (the dashboard of a file with
\* a header and no rows has no min/max date to build its sidebar from).
Files == SeqsUpTo(Rows, MaxRows) \ {<<>>}

\* The source files of the viewers' specification.
SharedFiles ==
    { <<Row(1, 1, 0, 50000, 10000, 5000, 90000), Row(2, 1, 0, 40000, 20000, 2000, 60000)>>,
      <<Row(2, 1, 13, 40000, 10000, 4000, 70000), Row(1, 1, 0, 42000, 10000, 4200, 85000)>> }

\* The days the date pickers offer.
Calendar == {[month |-> m, day |-> d] : m \in {1, 2}, d \in {1, 2}}

\* The slider stops tried: 1.0, 2.0, 4.0, 4.1, 4.2, 4.3, 5.0.
SliderStops == {0, 10, 30, 31, 32, 33, 40}

\* ----------------------------------------------------------------- helpers

Range(s) == {s[i] : i \in 1..Len(s)}

Abs(x) == IF x < 0 THEN -x ELSE x

DateLE(a, b) == a.month < b.month \/ (a.month = b.month /\ a.day <= b.day)

DateLT(a, b) == DateLE(a, b) /\ a # b

\* pd.to_datetime(..., dayfirst=True): "dd/mm" is day dd of month mm.
to_datetime(t) == [month |-> t[2], day |-> t[1], hour |-> t[3]]

\* Timestamp.date() / Series.dt.date: the time of day is dropped.
dt_date(ts) == [month |-> ts.month, day |-> ts.day]

\* pd.read_csv then the D.O.A conversion; row i gets index label i - 1.
read_csv(rows) ==
    [i \in 1..Len(rows) |->
        [index |-> i - 1,
         DOA |-> to_datetime(rows[i].DOA_text),
         Patient_Count |-> rows[i].Patient_Count,
         Estimated_Nurse_Count |-> rows[i].Estimated_Nurse_Count,
         Patients_Per_Nurse |-> rows[i].Patients_Per_Nurse,
         Occupancy_Rate |-> rows[i].Occupancy_Rate]]

\* ------------------------------------------------------------ the program

\* The file on disk.
Absent == [state |-> "absent", rows |-> <<>>]
Unreadable == [state |-> "unreadable", rows |-> <<>>]
Present(rows) == [state |-> "ok", rows |-> rows]

\* load_data under @st.cache_data, called as on line 68.  A cached entry is
\* returned without running the body; otherwise the body runs, and its result
\* is cached unless it raised.  read_csv raises FileNotFoundError for a missing
\* file and PermissionError for one that cannot be opened.
load_data_uncached(c, f) ==
    IF f.state = "absent" THEN [exc |-> "FileNotFoundError", df |-> <<>>, cache |-> c]
    ELSE IF f.state = "unreadable" THEN [exc |-> "PermissionError", df |-> <<>>, cache |-> c]
    ELSE [exc |-> "none", df |-> read_csv(f.rows), cache |-> <<read_csv(f.rows)>>]

load_data_always_reads(c, f) == load_data_uncached(c, f)

load_data(c, f) ==
    IF c # <<>> THEN [exc |-> "none", df |-> c[1], cache |-> c]
    ELSE load_data_uncached(c, f)

\* try: df = load_data() / except FileNotFoundError: only that class is caught.
Caught(e) == e = "FileNotFoundError"

\* df['D.O.A'].min().date() and .max().date()
min_dt(frame) ==
    CHOOSE d \in {dt_date(r.DOA) : r \in Range(frame)} :
        \A r \in Range(frame) : DateLE(d, dt_date(r.DOA))

max_dt(frame) ==
    CHOOSE d \in {dt_date(r.DOA) : r \in Range(frame)} :
        \A r \in Range(frame) : DateLE(dt_date(r.DOA), d)

\* st.date_input(..., min_value=min_dt, max_value=max_dt): a day in that range.
DateChoices(frame) ==
    {d \in Calendar : DateLE(min_dt(frame), d) /\ DateLE(d, max_dt(frame))}

\* if start_date > end_date:
StartAfterEnd_never(s, e) == FALSE

StartAfterEnd(s, e) == DateLT(e, s)

\* st.slider("...", 1.0, 5.0, 1.0, 0.1)
SLIDER_MIN == 1000
SLIDER_MAX == 5000
SLIDER_STEP == 100
SliderPositions ==
    {x \in {SLIDER_MIN + k * SLIDER_STEP : k \in SliderStops} : x <= SLIDER_MAX}

\* if min_ratio >= 4.0: ... elif min_ratio > 1.0: ... else: ...
CRITICAL == 4000
RiskMessage(r) ==
    IF r >= CRITICAL THEN "error: Showing only CRITICAL days."
    ELSE IF r > 1000 THEN "warning: Hiding days with ratio < min_ratio"
    ELSE "info: Showing ALL data."

\* mask = (df['D.O.A'].dt.date >= start_date) & (df['D.O.A'].dt.date <= end_date)
InMask_open_end(r, s, e) == DateLE(s, dt_date(r.DOA)) /\ DateLT(dt_date(r.DOA), e)

InMask(r, s, e) == DateLE(s, dt_date(r.DOA)) /\ DateLE(dt_date(r.DOA), e)

\* df.loc[mask]
ApplyDate(frame, s, e) == SelectSeq(frame, LAMBDA r : InMask(r, s, e))

\* frame[frame['Patients_Per_Nurse'] >= min_ratio]
ApplyRatio_below(frame, m) == SelectSeq(frame, LAMBDA r : r.Patients_Per_Nurse <= m)

ApplyRatio(frame, m) == SelectSeq(frame, LAMBDA r : r.Patients_Per_Nurse >= m)

\* FILTER LOGIC, lines 110-112
FilterLogic_ratio_of_df(frame, s, e, m) == ApplyRatio(frame, m)

FilterLogic(frame, s, e, m) == ApplyRatio(ApplyDate(frame, s, e), m)

\* if len(df_filtered) == 0:
NoData_never(frame) == FALSE

NoData(frame) == Len(frame) = 0

\* Series.sum()
RECURSIVE Sum(_, _)
Sum(frame, col) ==
    IF frame = <<>> THEN 0 ELSE frame[1][col] + Sum(Tail(frame), col)

\* round(x, ndigits) of the float num/den: to the nearest multiple of 10^-ndigits,
\* a tie to the even one.  The result is in thousandths.
PyRound_floor(num, den, ndigits) ==
    LET unit == IF ndigits = 1 THEN 100 ELSE 10
    IN  (num \div (den * unit)) * unit

PyRound(num, den, ndigits) ==
    LET unit == IF ndigits = 1 THEN 100 ELSE 10
        d == den * unit
        q == num \div d
        twice == 2 * (num % d)
        k == IF twice < d THEN q
             ELSE IF twice > d THEN q + 1
             ELSE IF q % 2 = 0 THEN q ELSE q + 1
    IN  k * unit

\* round(frame[col].mean(), ndigits); the mean of no rows is NaN.
RoundedMean(frame, col, ndigits) ==
    IF Len(frame) = 0 THEN NaN
    ELSE Num(PyRound(Sum(frame, col), Len(frame), ndigits))

\* len(df_filtered[df_filtered['Patients_Per_Nurse'] > 4.0])
RISK_THRESHOLD == 4000
RiskDays_inclusive(frame) ==
    Num(Len(SelectSeq(frame, LAMBDA r : r.Patients_Per_Nurse >= RISK_THRESHOLD)))

RiskDays(frame) ==
    Num(Len(SelectSeq(frame, LAMBDA r : r.Patients_Per_Nurse > RISK_THRESHOLD)))

\* ------------------------------------------------------------- the script

Stopped(v) == pc[v] \in {"stopped", "crashed", "done"}

Locals == <<df, start_date, end_date, min_ratio, df_filtered,
            avg_patients, avg_nurses, avg_ratio, risk_days>>

\* Lines 59-71: the load, and the handler of its failure.
Load(v) ==
    /\ pc[v] = "load"
    /\ LET res == load_data(cache, file)
       IN  /\ cache' = res.cache
           /\ exc' = [exc EXCEPT ![v] = res.exc]
           /\ df' = [df EXCEPT ![v] = res.df]
           /\ IF res.exc = "none"
              THEN /\ pc' = [pc EXCEPT ![v] = "sidebar"]
                   /\ out' = out
              ELSE IF Caught(res.exc)
              THEN /\ pc' = [pc EXCEPT ![v] = "stopped"]
                   /\ out' = [out EXCEPT ![v] = Append(@, "error: csv not found")]
              ELSE /\ pc' = [pc EXCEPT ![v] = "crashed"]
                   /\ out' = [out EXCEPT ![v] = Append(@, "uncaught exception")]
    /\ UNCHANGED <<file, start_date, end_date, min_ratio, df_filtered,
                   avg_patients, avg_nurses, avg_ratio, risk_days>>

\* Lines 73-107: the sidebar.
Sidebar(v) ==
    /\ pc[v] = "sidebar"
    /\ \E s \in DateChoices(df[v]), e \in DateChoices(df[v]) :
        /\ start_date' = [start_date EXCEPT ![v] = s]
        /\ end_date' = [end_date EXCEPT ![v] = e]
        /\ IF StartAfterEnd(s, e)
           THEN /\ out' = [out EXCEPT ![v] = Append(@, "error: start after end")]
                /\ pc' = [pc EXCEPT ![v] = "stopped"]
                /\ min_ratio' = min_ratio
           ELSE \E m \in SliderPositions :
                /\ min_ratio' = [min_ratio EXCEPT ![v] = m]
                /\ out' = [out EXCEPT ![v] = Append(@, RiskMessage(m))]
                /\ pc' = [pc EXCEPT ![v] = "filter"]
    /\ UNCHANGED <<file, cache, df, df_filtered, avg_patients, avg_nurses,
                   avg_ratio, risk_days, exc>>

\* Lines 109-112: the filter.
Filter(v) ==
    /\ pc[v] = "filter"
    /\ df_filtered' = [df_filtered EXCEPT
                          ![v] = FilterLogic(df[v], start_date[v], end_date[v], min_ratio[v])]
    /\ pc' = [pc EXCEPT ![v] = "header"]
    /\ UNCHANGED <<file, cache, df, start_date, end_date, min_ratio,
                   avg_patients, avg_nurses, avg_ratio, risk_days, exc, out>>

\* Lines 114-122: the header and the empty-data check.
Header(v) ==
    /\ pc[v] = "header"
    /\ IF NoData(df_filtered[v])
       THEN /\ out' = [out EXCEPT ![v] = Append(Append(@, "header"), "warning: no data")]
            /\ pc' = [pc EXCEPT ![v] = "stopped"]
       ELSE /\ out' = [out EXCEPT ![v] = Append(@, "header")]
            /\ pc' = [pc EXCEPT ![v] = "metrics"]
    /\ UNCHANGED <<file, cache, exc>>
    /\ UNCHANGED Locals

\* Lines 124-143: the metric cards.
Metrics(v) ==
    /\ pc[v] = "metrics"
    /\ avg_patients' = [avg_patients EXCEPT
                           ![v] = RoundedMean(df_filtered[v], "Patient_Count", 1)]
    /\ avg_nurses' = [avg_nurses EXCEPT
                         ![v] = RoundedMean(df_filtered[v], "Estimated_Nurse_Count", 1)]
    /\ avg_ratio' = [avg_ratio EXCEPT
                        ![v] = RoundedMean(df_filtered[v], "Patients_Per_Nurse", 2)]
    /\ risk_days' = [risk_days EXCEPT ![v] = RiskDays(df_filtered[v])]
    /\ out' = [out EXCEPT ![v] = Append(@, "cards")]
    /\ pc' = [pc EXCEPT ![v] = "charts"]
    /\ UNCHANGED <<file, cache, df, start_date, end_date, min_ratio, df_filtered, exc>>

\* Lines 147-233: the three charts of df_filtered and the footer.
Charts(v) ==
    /\ pc[v] = "charts"
    /\ out' = [out EXCEPT ![v] = @ \o <<"chart: main", "chart: hist", "chart: scatter", "footer">>]
    /\ pc' = [pc EXCEPT ![v] = "done"]
    /\ UNCHANGED <<file, cache, exc>>
    /\ UNCHANGED Locals

\* A widget change (or a reload of the page) runs the script again from the
\* top: the run's variables and page start afresh, the cache stays.
Rerun(v) ==
    /\ Stopped(v)
    /\ pc' = [pc EXCEPT ![v] = "load"]
    /\ df' = [df EXCEPT ![v] = <<>>]
    /\ start_date' = [start_date EXCEPT ![v] = NoDate]
    /\ end_date' = [end_date EXCEPT ![v] = NoDate]
    /\ min_ratio' = [min_ratio EXCEPT ![v] = NoRatio]
    /\ df_filtered' = [df_filtered EXCEPT ![v] = <<>>]
    /\ avg_patients' = [avg_patients EXCEPT ![v] = Unset]
    /\ avg_nurses' = [avg_nurses EXCEPT ![v] = Unset]
    /\ avg_ratio' = [avg_ratio EXCEPT ![v] = Unset]
    /\ risk_days' = [risk_days EXCEPT ![v] = Unset]
    /\ exc' = [exc EXCEPT ![v] = "none"]
    /\ out' = [out EXCEPT ![v] = <<>>]
    /\ UNCHANGED <<file, cache>>

\* The file on disk is replaced, removed or made unreadable (by whoever owns it).
ChangeFile ==
    /\ file' \in ({Absent, Unreadable} \cup {Present(rows) : rows \in SharedFiles}) \ {file}
    /\ UNCHANGED <<cache, pc, exc, out>>
    /\ UNCHANGED Locals

Step(v) ==
    \/ Load(v)
    \/ Sidebar(v)
    \/ Filter(v)
    \/ Header(v)
    \/ Metrics(v)
    \/ Charts(v)
    \/ Rerun(v)

InitViewers ==
    /\ cache = <<>>
    /\ pc = [v \in Viewers |-> "load"]
    /\ df = [v \in Viewers |-> <<>>]
    /\ start_date = [v \in Viewers |-> NoDate]
    /\ end_date = [v \in Viewers |-> NoDate]
    /\ min_ratio = [v \in Viewers |-> NoRatio]
    /\ df_filtered = [v \in Viewers |-> <<>>]
    /\ avg_patients = [v \in Viewers |-> Unset]
    /\ avg_nurses = [v \in Viewers |-> Unset]
    /\ avg_ratio = [v \in Viewers |-> Unset]
    /\ risk_days = [v \in Viewers |-> Unset]
    /\ exc = [v \in Viewers |-> "none"]
    /\ out = [v \in Viewers |-> <<>>]

\* One viewer, any source file.
Init ==
    /\ file \in {Absent, Unreadable} \cup {Present(rows) : rows \in Files}
    /\ InitViewers

Next == Step("v1")

Spec == Init /\ [][Next]_vars

\* Two viewers of one server process, and a file that changes under them.
InitShared ==
    /\ file \in {Present(rows) : rows \in SharedFiles}
    /\ InitViewers

NextShared == (\E v \in Viewers : Step(v)) \/ ChangeFile

SpecShared == InitShared /\ [][NextShared]_vars

\* ------------------------------------------------------------- the claims

\* The run of v has executed the filter (it is past line 112).
HasFiltered(v) ==
    \/ pc[v] \in {"header", "metrics", "charts", "done"}
    \/ pc[v] = "stopped" /\ min_ratio[v] # NoRatio

\* The run of v has drawn its metric cards (it is past line 143).
HasMetrics(v) == pc[v] \in {"charts", "done"}

Before(a, b) == a.month < b.month \/ (a.month = b.month /\ a.day < b.day)

\* A frame's row is within [s, e] by its calendar day, and at or above ratio m.
Qualifies(r, s, e, m) ==
    /\ ~Before([month |-> r.DOA.month, day |-> r.DOA.day], s)
    /\ ~Before(e, [month |-> r.DOA.month, day |-> r.DOA.day])
    /\ r.Patients_Per_Nurse >= m

\* The rows of v's Dataset that its FilterParameters select.
ViewRows(v) ==
    {r \in Range(df[v]) : Qualifies(r, start_date[v], end_date[v], min_ratio[v])}

RECURSIVE SetSum(_, _)
SetSum(S, col) ==
    IF S = {} THEN 0
    ELSE LET r == CHOOSE x \in S : TRUE IN r[col] + SetSum(S \ {r}, col)

\* Card a shows total/n rounded to a multiple of unit.
IsRounded(a, total, n, unit) ==
    /\ a.set /\ ~a.nan
    /\ a.val % unit = 0
    /\ 2 * Abs(n * a.val - total) <= n * unit

\* C1: the filtered frame is exactly the subsequence of the loaded frame whose
\* rows have start_date <= day of D.O.A <= end_date (both inclusive, the time of
\* day ignored) and Patients_Per_Nurse >= min_ratio: the same rows, each once,
\* in the order of the file.
C1_FilteredViewExact ==
    \A v \in Viewers :
        HasFiltered(v) =>
            LET view == df_filtered[v]
            IN  /\ Range(view) = ViewRows(v)
                /\ Len(view) = Cardinality(ViewRows(v))
                /\ \A i, j \in 1..Len(view) : i < j => view[i].index < view[j].index

\* C1 happens: a row dated on end_date with a time of day and a ratio equal to
\* min_ratio is kept, and another row of the file is dropped.
C1_Witness ==
    \E v \in Viewers :
        /\ HasFiltered(v)
        /\ Len(df_filtered[v]) < Len(df[v])
        /\ \E r \in Range(df_filtered[v]) :
            /\ r.DOA.hour > 0
            /\ dt_date(r.DOA) = end_date[v]
            /\ r.Patients_Per_Nurse = min_ratio[v]

\* C2: a run whose start date is after its end date shows the validation
\* message and stops in the sidebar: no slider value, no filter, no header, no
\* cards and no charts in that run.
C2_InvalidDateRangeHalts ==
    \A v \in Viewers :
        Before(end_date[v], start_date[v]) =>
            /\ pc[v] = "stopped"
            /\ out[v] = <<"error: start after end">>
            /\ min_ratio[v] = NoRatio
            /\ df_filtered[v] = <<>>
            /\ avg_patients[v] = Unset /\ avg_nurses[v] = Unset
            /\ avg_ratio[v] = Unset /\ risk_days[v] = Unset

\* C2 happens: a run with start after end has stopped.
C2_Witness ==
    \E v \in Viewers :
        /\ start_date[v] = [month |-> 2, day |-> 1]
        /\ end_date[v] = [month |-> 1, day |-> 1]
        /\ pc[v] = "stopped"

\* C3: a run whose filtered frame is empty shows the "no data" notice and
\* stops, with no cards and no charts; so the cards and the charts are only
\* ever drawn from a non-empty filtered frame.
C3_EmptyViewHalts ==
    \A v \in Viewers :
        /\ (HasFiltered(v) /\ pc[v] # "header" /\ ViewRows(v) = {}) =>
                /\ pc[v] = "stopped"
                /\ out[v][Len(out[v])] = "warning: no data"
                /\ avg_patients[v] = Unset /\ avg_nurses[v] = Unset
                /\ avg_ratio[v] = Unset /\ risk_days[v] = Unset
                /\ Range(out[v]) \cap {"cards", "chart: main", "chart: hist", "chart: scatter"} = {}
        /\ (pc[v] \in {"metrics", "charts", "done"}) =>
                /\ Len(df_filtered[v]) > 0
                /\ ViewRows(v) # {}
        /\ avg_patients[v] # NaN /\ avg_nurses[v] # NaN /\ avg_ratio[v] # NaN

\* C3 happens: min_ratio = 5.0 on a file whose largest ratio is 4.2.
C3_Witness ==
    \E v \in Viewers :
        /\ pc[v] = "stopped"
        /\ min_ratio[v] = 5000
        /\ \E r \in Range(df[v]) : r.Patients_Per_Nurse = 4200 /\ InMask(r, start_date[v], end_date[v])
        /\ \A r \in Range(df[v]) : r.Patients_Per_Nurse <= 4200
        /\ "warning: no data" \in Range(out[v])

\* C4 (as claimed): a run whose load failed, the file being absent or
\* unreadable, has stopped with the one explicit error message on the page.
C4_LoadFailureHalts ==
    \A v \in Viewers :
        exc[v] # "none" =>
            /\ pc[v] = "stopped"
            /\ out[v] = <<"error: csv not found">>

\* C5: filtering by ratio first and by date second selects the same set of
\* rows as the code's order, date first and ratio second.
C5_FilterOrderIndependent ==
    \A v \in Viewers :
        HasFiltered(v) =>
            Range(df_filtered[v])
                = Range(ApplyDate(ApplyRatio(df[v], min_ratio[v]), start_date[v], end_date[v]))

\* C5 happens: each predicate alone drops a row of the file and a row is kept.
C5_Witness ==
    \E v \in Viewers :
        /\ HasFiltered(v)
        /\ Len(ApplyDate(df[v], start_date[v], end_date[v])) < Len(df[v])
        /\ Len(ApplyRatio(df[v], min_ratio[v])) < Len(df[v])
        /\ Len(df_filtered[v]) > 0

\* C6: with the date range fixed, every threshold at or above the run's
\* min_ratio selects a subset of the run's filtered frame, never more rows.
C6_FilterMonotone ==
    \A v \in Viewers :
        HasFiltered(v) =>
            \A m2 \in SliderPositions :
                m2 >= min_ratio[v] =>
                    LET higher == FilterLogic(df[v], start_date[v], end_date[v], m2)
                    IN  /\ Range(higher) \subseteq Range(df_filtered[v])
                        /\ Len(higher) <= Len(df_filtered[v])

\* C6 happens: a higher threshold keeps some rows of the filtered frame and
\* drops others.
C6_Witness ==
    \E v \in Viewers :
        /\ HasFiltered(v)
        /\ \E m2 \in SliderPositions :
            /\ m2 > min_ratio[v]
            /\ Len(FilterLogic(df[v], start_date[v], end_date[v], m2)) > 0
            /\ Len(FilterLogic(df[v], start_date[v], end_date[v], m2)) < Len(df_filtered[v])

\* The frame of the file 01/01 (50, 10, 5.0), 02/01 (40, 20, 2.0).
IsScenario(frame) ==
    /\ Len(frame) = 2
    /\ frame[1].DOA = [month |-> 1, day |-> 1, hour |-> 0]
    /\ frame[1].Patient_Count = 50000 /\ frame[1].Estimated_Nurse_Count = 10000
    /\ frame[1].Patients_Per_Nurse = 5000
    /\ frame[2].DOA = [month |-> 1, day |-> 2, hour |-> 0]
    /\ frame[2].Patient_Count = 40000 /\ frame[2].Estimated_Nurse_Count = 20000
    /\ frame[2].Patients_Per_Nurse = 2000

ScenarioRun(v) ==
    /\ HasMetrics(v)
    /\ IsScenario(df[v])
    /\ start_date[v] = [month |-> 1, day |-> 1]
    /\ end_date[v] = [month |-> 1, day |-> 2]
    /\ min_ratio[v] = 1000

\* C7: the cards are computed over the rows the parameters select, not over
\* the whole file: the two averages of counts are the means rounded to one
\* decimal, the average ratio is the mean rounded to two decimals, and the
\* high-risk count is the number of selected rows with a ratio strictly above
\* 4.0 whatever min_ratio is; in the two-row scenario they are 45.0, 15.0, 3.5
\* and 1.
C7_AggregatesOverView ==
    \A v \in Viewers :
        HasMetrics(v) =>
            LET S == ViewRows(v)
                n == Cardinality(S)
            IN  /\ n > 0
                /\ IsRounded(avg_patients[v], SetSum(S, "Patient_Count"), n, 100)
                /\ IsRounded(avg_nurses[v], SetSum(S, "Estimated_Nurse_Count"), n, 100)
                /\ IsRounded(avg_ratio[v], SetSum(S, "Patients_Per_Nurse"), n, 10)
                /\ risk_days[v] = Num(Cardinality({r \in S : r.Patients_Per_Nurse > 4000}))
                /\ ScenarioRun(v) =>
                        /\ avg_patients[v] = Num(45000)
                        /\ avg_nurses[v] = Num(15000)
                        /\ avg_ratio[v] = Num(3500)
                        /\ risk_days[v] = Num(1)

\* C7 happens: the two-row scenario has drawn its cards.
C7_Witness == \E v \in Viewers : ScenarioRun(v) /\ pc[v] = "done"

\* C8 (as claimed): the cards of a one-row filtered frame show that row's own
\* values.
C8_SingleRecordEqualsValues ==
    \A v \in Viewers :
        (HasMetrics(v) /\ Len(df_filtered[v]) = 1) =>
            LET r == df_filtered[v][1]
            IN  /\ avg_patients[v] = Num(r.Patient_Count)
                /\ avg_nurses[v] = Num(r.Estimated_Nurse_Count)
                /\ avg_ratio[v] = Num(r.Patients_Per_Nurse)
                /\ risk_days[v] = Num(IF r.Patients_Per_Nurse > 4000 THEN 1 ELSE 0)

\* C8 (amended): the cards of a one-row filtered frame show that row's values
\* rounded, the counts to one decimal and the ratio to two (so the value itself
\* when it has no more decimals than that); the high-risk count is 1 when the
\* row's ratio is above 4.0 and 0 otherwise.
C8_SingleRecordRounded ==
    \A v \in Viewers :
        (HasMetrics(v) /\ Cardinality(ViewRows(v)) = 1) =>
            LET r == CHOOSE x \in ViewRows(v) : TRUE
            IN  /\ IsRounded(avg_patients[v], r.Patient_Count, 1, 100)
                /\ IsRounded(avg_nurses[v], r.Estimated_Nurse_Count, 1, 100)
                /\ IsRounded(avg_ratio[v], r.Patients_Per_Nurse, 1, 10)
                /\ r.Patient_Count % 100 = 0 => avg_patients[v].val = r.Patient_Count
                /\ r.Estimated_Nurse_Count % 100 = 0 => avg_nurses[v].val = r.Estimated_Nurse_Count
                /\ r.Patients_Per_Nurse % 10 = 0 => avg_ratio[v].val = r.Patients_Per_Nurse
                /\ risk_days[v].val \in {0, 1}
                /\ risk_days[v].val = 1 <=> r.Patients_Per_Nurse > 4000

\* C8 happens: the one selected row has ratio 4.167 and the card shows 4.17.
C8_Witness ==
    \E v \in Viewers :
        /\ HasMetrics(v)
        /\ Len(df_filtered[v]) = 1
        /\ df_filtered[v][1].Patients_Per_Nurse = 4167
        /\ avg_ratio[v] = Num(4170)
        /\ risk_days[v] = Num(1)

\* C9: once a load has succeeded the cached frame never changes, whatever
\* becomes of the file and whatever the viewers do; every run that has loaded
\* works on that frame, and its filtered frame is what its own parameters
\* select from it.
C9_DatasetLoadedOnce ==
    [][ /\ cache # <<>> => cache' = cache
        /\ \A v \in Viewers :
            /\ (pc'[v] # "load" /\ exc'[v] = "none") =>
                    /\ cache' # <<>>
                    /\ df'[v] = cache'[1]
            /\ HasFiltered(v)' =>
                    /\ Range(df_filtered'[v])
                         = {r \in Range(cache'[1]) :
                               Qualifies(r, start_date'[v], end_date'[v], min_ratio'[v])}
                    /\ Len(df_filtered'[v]) = Cardinality(Range(df_filtered'[v])) ]_vars

\* C9 happens: the file on disk no longer holds the cached frame, and both
\* viewers have finished a run on the cached frame with different parameters
\* and different filtered frames.
C9_Witness ==
    /\ file.state = "ok"
    /\ cache # <<>>
    /\ read_csv(file.rows) # cache[1]
    /\ pc["v1"] = "done" /\ pc["v2"] = "done"
    /\ df["v1"] = cache[1] /\ df["v2"] = cache[1]
    /\ min_ratio["v1"] # min_ratio["v2"]
    /\ df_filtered["v1"] # df_filtered["v2"]

\* C10 (as claimed): when min_ratio >= 4.0, the case the sidebar calls "only
\* CRITICAL days", every row of the filtered frame counts as a high-risk day.
C10_CriticalRunsAllRisk ==
    \A v \in Viewers :
        (HasMetrics(v) /\ min_ratio[v] >= 4000) =>
            /\ "error: Showing only CRITICAL days." \in Range(out[v])
            /\ risk_days[v] = Num(Len(df_filtered[v]))

====
